---------------------------- MODULE Spec2Model ----------------------------
(***************************************************************************)
(* Model of the embedding bridge LaminaInterpreter of                      *)
(* src/bindings/wasm_bindings.cpp: one owned Interpreter behind a          *)
(* unique_ptr, the tokenize -> parse -> execute pipeline of execute and    *)
(* eval, the catch clauses that turn failures into strings, the variable   *)
(* accessors and reset.                                                    *)
(*                                                                         *)
(* The wrapped engine (Lexer, Parser, Interpreter, Value) is not part of   *)
(* the bridge's source file; it is modelled here as a small language       *)
(* (var declarations, literals, identifiers, a call, a sum) that has the   *)
(* interface the bridge uses and the failure behaviour the specification   *)
(* gives it.  Source text is a sequence of words (the text split at white  *)
(* space), so the wrapping done by eval is a real concatenation.           *)
(***************************************************************************)
EXTENDS Integers, Sequences, FiniteSets, TLC

VARIABLES bridge, last, inject, staticInit, engine

vars == <<bridge, last, inject, staticInit, engine>>

(***************************************************************************)
(* Bounds of the model.                                                    *)
(***************************************************************************)
\* Object ids the allocator can hand out (reset holds two objects for a moment).
MaxObjs == 2
\* setVariable is called with the numbers 1..MaxNum.
MaxNum == 1

ObjIds == 1..MaxObjs

(***************************************************************************)
(* Exceptions.  A thrown object has a class and the text what() returns.   *)
(* RuntimeError and StdLibException derive from std::exception; "nonstd"   *)
(* is a thrown object that is no std::exception and carries no message.    *)
(***************************************************************************)
StdClasses == {"RuntimeError", "StdLibException", "std::exception"}

ExcClasses == StdClasses \cup {"nonstd"}

Exc(cls, what) == [cls |-> cls, what |-> IF cls = "nonstd" THEN "" ELSE what]

NoExc == [cls |-> "none", what |-> ""]

\* catch (const T&) matches an object of class cls
Catches(T, cls) ==
    \/ T = cls
    \/ T = "std::exception" /\ cls \in StdClasses
    \/ T = "..."

(***************************************************************************)
(* Value and Value::to_string.                                             *)
(***************************************************************************)
NullValue == [type |-> "Null", num |-> 0, str |-> ""]

NumberValue(n) == [type |-> "Number", num |-> n, str |-> ""]

StringValue(s) == [type |-> "String", num |-> 0, str |-> s]

to_string(v) ==
    CASE v.type = "Null" -> "null"
      [] v.type = "Number" -> ToString(v.num)
      [] v.type = "String" -> v.str

(***************************************************************************)
(* Lexer::tokenize.  env.fault injects a failure of a collaborator;        *)
(* env.ecls is the class the lexer and the parser throw on malformed text. *)
(***************************************************************************)
Keywords == {"var"}

Digits == 0..9

NumberWords == {ToString(n) : n \in Digits}

NumVal(w) == CHOOSE n \in Digits : ToString(n) = w

IsStringWord(w) ==
    /\ Len(w) >= 2
    /\ SubSeq(w, 1, 1) = "\""
    /\ SubSeq(w, Len(w), Len(w)) = "\""

IdentWords == {"x", "u", "print", "__lamina_result__"}

Punct == {"=", ";", "(", ")", "+"}

IsLexable(w) ==
    w \in Keywords \cup NumberWords \cup IdentWords \cup Punct \/ IsStringWord(w)

Token(w) ==
    CASE w \in Keywords -> [type |-> "Var", text |-> w]
      [] w \in NumberWords -> [type |-> "Number", text |-> w]
      [] w \in IdentWords -> [type |-> "Identifier", text |-> w]
      [] w = "=" -> [type |-> "Assign", text |-> w]
      [] w = ";" -> [type |-> "Semicolon", text |-> w]
      [] w = "(" -> [type |-> "LParen", text |-> w]
      [] w = ")" -> [type |-> "RParen", text |-> w]
      [] w = "+" -> [type |-> "Plus", text |-> w]
      [] OTHER -> [type |-> "String", text |-> SubSeq(w, 2, Len(w) - 1)]

Faulted(env, stage) == env.fault.stage = stage

FaultExc(env) == Exc(env.fault.cls, "injected failure")

Lexer_tokenize(code, env) ==
    IF Faulted(env, "tokenize")
    THEN [ok |-> FALSE, exc |-> FaultExc(env), tokens |-> <<>>]
    ELSE IF \E i \in 1..Len(code) : ~IsLexable(code[i])
    THEN [ok |-> FALSE, exc |-> Exc(env.ecls, "Unexpected character"), tokens |-> <<>>]
    ELSE [ok |-> TRUE, exc |-> NoExc, tokens |-> [i \in 1..Len(code) |-> Token(code[i])]]

(***************************************************************************)
(* Parser::parse: recursive descent over the token stream.                 *)
(*   program := stmt*                                                      *)
(*   stmt    := "var" Identifier "=" expr ";"  |  expr ";"                 *)
(*   expr    := atom ( "+" atom )?                                         *)
(*   atom    := Number | String | Identifier | Identifier "(" atom ")"     *)
(* On a syntax error the parser either throws or hands back a null         *)
(* pointer (env.perr).                                                     *)
(***************************************************************************)
NoNode == [k |-> "none"]

PFail == [ok |-> FALSE, node |-> NoNode, next |-> 0]

POk(node, next) == [ok |-> TRUE, node |-> node, next |-> next]

TypeAt(toks, i) == IF i \in 1..Len(toks) THEN toks[i].type ELSE "EOF"

RECURSIVE ParseAtom(_, _)
\* the call's argument a is parsed; the closing parenthesis must follow
ParseCall(toks, i, a) ==
    IF a.ok /\ TypeAt(toks, a.next) = "RParen"
    THEN POk([k |-> "Call", f |-> toks[i].text, arg |-> a.node], a.next + 1)
    ELSE PFail

ParseAtom(toks, i) ==
    CASE TypeAt(toks, i) = "Number" ->
            POk([k |-> "Num", v |-> NumVal(toks[i].text)], i + 1)
      [] TypeAt(toks, i) = "String" ->
            POk([k |-> "Str", v |-> toks[i].text], i + 1)
      [] TypeAt(toks, i) = "Identifier" ->
            IF TypeAt(toks, i + 1) = "LParen"
            THEN ParseCall(toks, i, ParseAtom(toks, i + 2))
            ELSE POk([k |-> "Var", name |-> toks[i].text], i + 1)
      [] OTHER -> PFail

ParseSumRight(l, r) ==
    IF r.ok THEN POk([k |-> "Add", l |-> l.node, r |-> r.node], r.next) ELSE PFail

ParseSum(toks, l) ==
    IF ~l.ok THEN PFail
    ELSE IF TypeAt(toks, l.next) = "Plus"
    THEN ParseSumRight(l, ParseAtom(toks, l.next + 1))
    ELSE l

ParseExpr(toks, i) == ParseSum(toks, ParseAtom(toks, i))

ParseVarDecl(toks, i, e) ==
    IF e.ok /\ TypeAt(toks, e.next) = "Semicolon"
    THEN POk([k |-> "VarDecl", name |-> toks[i + 1].text, init |-> e.node],
             e.next + 1)
    ELSE PFail

ParseExprStmt(toks, e) ==
    IF e.ok /\ TypeAt(toks, e.next) = "Semicolon"
    THEN POk([k |-> "ExprStmt", e |-> e.node], e.next + 1)
    ELSE PFail

ParseStmt(toks, i) ==
    IF TypeAt(toks, i) = "Var"
    THEN IF TypeAt(toks, i + 1) = "Identifier" /\ TypeAt(toks, i + 2) = "Assign"
         THEN ParseVarDecl(toks, i, ParseExpr(toks, i + 3))
         ELSE PFail
    ELSE ParseExprStmt(toks, ParseExpr(toks, i))

RECURSIVE ParseProgram(_, _)
ParseRest(s, rest) ==
    [ok |-> rest.ok, stmts |-> IF rest.ok THEN <<s.node>> \o rest.stmts ELSE <<>>]

ParseNext(toks, s) ==
    IF ~s.ok THEN [ok |-> FALSE, stmts |-> <<>>]
    ELSE ParseRest(s, ParseProgram(toks, s.next))

ParseProgram(toks, i) ==
    IF i > Len(toks)
    THEN [ok |-> TRUE, stmts |-> <<>>]
    ELSE ParseNext(toks, ParseStmt(toks, i))

\* The result: ok = no exception; null = the returned pointer is null;
\* stmts = the statements of the BlockStmt.
Parser_result(p, env) ==
    IF p.ok
    THEN [ok |-> TRUE, exc |-> NoExc, null |-> FALSE, stmts |-> p.stmts]
    ELSE IF env.perr = "throw"
    THEN [ok |-> FALSE, exc |-> Exc(env.ecls, "Syntax error"),
          null |-> FALSE, stmts |-> <<>>]
    ELSE [ok |-> TRUE, exc |-> NoExc, null |-> TRUE, stmts |-> <<>>]

Parser_parse(tokens, env) ==
    IF Faulted(env, "parse")
    THEN [ok |-> FALSE, exc |-> FaultExc(env), null |-> FALSE, stmts |-> <<>>]
    ELSE Parser_result(ParseProgram(tokens, 1), env)

(***************************************************************************)
(* Interpreter: the variable scope and the builtin-function table, and     *)
(* execute / get_variable / set_variable on it.                            *)
(***************************************************************************)
EmptyMap == [n \in {} |-> NullValue]

Bind(m, name, v) == [n \in DOMAIN m \cup {name} |-> IF n = name THEN v ELSE m[n]]

\* Interpreter(): the builtins present after construction are those the static
\* initializers registered, which the target platform may or may not have run.
NewInterpreter ==
    [variables |-> EmptyMap,
     builtin_functions |-> IF staticInit THEN {"print"} ELSE {}]

EOk(v, out) == [ok |-> TRUE, val |-> v, exc |-> NoExc, cout |-> out]

EFail(e) == [ok |-> FALSE, val |-> NullValue, exc |-> e, cout |-> <<>>]

\* print_wasm: the rendering of the argument, written as one line of output
print_wasm(arg) == <<to_string(arg)>>

RECURSIVE Evaluate(_, _)
\* a call of a builtin with the evaluated argument a
EvalCall(e, I, a) ==
    IF ~a.ok THEN a
    ELSE IF e.f \notin I.builtin_functions
    THEN EFail(Exc("RuntimeError", "Undefined function '" \o e.f \o "'"))
    ELSE EOk(NullValue, a.cout \o print_wasm(a.val))

EvalAdd(l, r) ==
    IF ~l.ok THEN l
    ELSE IF ~r.ok THEN r
    ELSE IF l.val.type = "Number" /\ r.val.type = "Number"
    THEN EOk(NumberValue(l.val.num + r.val.num), l.cout \o r.cout)
    ELSE EFail(Exc("RuntimeError", "Unsupported operand types"))

Evaluate(e, I) ==
    CASE e.k = "Num" -> EOk(NumberValue(e.v), <<>>)
      [] e.k = "Str" -> EOk(StringValue(e.v), <<>>)
      [] e.k = "Var" ->
            IF e.name \in DOMAIN I.variables
            THEN EOk(I.variables[e.name], <<>>)
            ELSE EFail(Exc("RuntimeError", "Undefined variable '" \o e.name \o "'"))
      [] e.k = "Call" -> EvalCall(e, I, Evaluate(e.arg, I))
      [] e.k = "Add" -> EvalAdd(Evaluate(e.l, I), Evaluate(e.r, I))

XOk(I, out) == [ok |-> TRUE, exc |-> NoExc, interp |-> I, cout |-> out]

XFail(I, e, out) == [ok |-> FALSE, exc |-> e, interp |-> I, cout |-> out]

ExecBind(s, I, v) ==
    IF ~v.ok THEN XFail(I, v.exc, v.cout)
    ELSE IF s.k = "VarDecl"
    THEN XOk([I EXCEPT !.variables = Bind(@, s.name, v.val)], v.cout)
    ELSE XOk(I, v.cout)

ExecStmt(s, I) == ExecBind(s, I, Evaluate(IF s.k = "VarDecl" THEN s.init ELSE s.e, I))

\* the statements of a block run in order; the first failure ends the block
\* and keeps what the earlier statements did
RECURSIVE ExecBlock(_, _)
ExecRest(h, t) == [t EXCEPT !.cout = h.cout \o @]

ExecNext(stmts, h) ==
    IF ~h.ok THEN h ELSE ExecRest(h, ExecBlock(Tail(stmts), h.interp))

ExecBlock(stmts, I) ==
    IF stmts = <<>> THEN XOk(I, <<>>) ELSE ExecNext(stmts, ExecStmt(Head(stmts), I))

\* Interpreter::execute(stmt); a null statement is skipped
Interpreter_execute(ast, I, env) ==
    IF Faulted(env, "execute") THEN XFail(I, FaultExc(env), <<>>)
    ELSE IF ast.null THEN XOk(I, <<>>)
    ELSE ExecBlock(ast.stmts, I)

Interpreter_get_variable(name, I, env) ==
    IF Faulted(env, "get_variable") THEN EFail(FaultExc(env))
    ELSE IF name \in DOMAIN I.variables THEN EOk(I.variables[name], <<>>)
    ELSE EFail(Exc("RuntimeError", "Undefined variable '" \o name \o "'"))

Interpreter_set_variable(name, v, I, env) ==
    IF Faulted(env, "set_variable") THEN XFail(I, FaultExc(env), <<>>)
    ELSE XOk([I EXCEPT !.variables = Bind(@, name, v)], <<>>)

(***************************************************************************)
(* The heap of Interpreter objects and std::unique_ptr<Interpreter>.       *)
(***************************************************************************)
Alloc(heap) ==
    CHOOSE i \in ObjIds \ DOMAIN heap : \A j \in ObjIds \ DOMAIN heap : i <= j

\* std::make_unique<Interpreter>(): a new live object
make_unique(heap, id) ==
    [i \in DOMAIN heap \cup {id} |-> IF i = id THEN NewInterpreter ELSE heap[i]]

\* unique_ptr::operator=(unique_ptr&&): the object owned so far is deleted
unique_ptr_assign(b, heap, id) ==
    [interpreter |-> id,
     heap |-> [i \in DOMAIN heap \ {b.interpreter} |-> heap[i]]]

Owned(b) == b.heap[b.interpreter]

SetOwned(b, I) == [b EXCEPT !.heap[b.interpreter] = I]

(***************************************************************************)
(* class LaminaInterpreter.  A bridge is [interpreter, heap]: the          *)
(* unique_ptr member and the Interpreter objects alive.  Every method      *)
(* returns the bridge after the call, what the caller gets (a returned     *)
(* string, nothing, or an exception that left the method) and a record of  *)
(* what happened inside.                                                   *)
(***************************************************************************)
Return(s) == [kind |-> "return", val |-> s]

Throw(e) == [kind |-> "throw", val |-> e.cls]

Void == [kind |-> "void", val |-> ""]

\* stage: the collaborator call the failure came from ("none": no failure)
Out(b, ret, stage, exc, null, lookup, cout, cerr) ==
    [b |-> b, ret |-> ret, stage |-> stage, exc |-> exc, null |-> null,
     lookup |-> lookup, cout |-> cout, cerr |-> cerr]

EmptyHeap == [i \in {} |-> 0]

\* the constructor: make_unique, then builtin_functions["print"] = ...
register_print(b) ==
    SetOwned(b, [Owned(b) EXCEPT !.builtin_functions = @ \cup {"print"}])

construct(id) == register_print([interpreter |-> id, heap |-> make_unique(EmptyHeap, id)])

LaminaInterpreter_ctor == construct(Alloc(EmptyHeap))

\* the catch clauses of execute, in their order
execute_catch(e) ==
    IF Catches("RuntimeError", e.cls) THEN "RuntimeError: " \o e.what
    ELSE IF Catches("StdLibException", e.cls) THEN "StdLibException: " \o e.what
    ELSE IF Catches("std::exception", e.cls) THEN "std::exception: " \o e.what
    ELSE "Unknown C++ exception occurred during execution"

execute_fail(b, stage, e, cout) ==
    Out(b, Return(execute_catch(e)), stage, e, FALSE, FALSE, cout, execute_catch(e))

\* (mutant) the statement runs on a copy of the interpreter
execute_done_copy(b, ast, run) ==
    IF ~run.ok
    THEN execute_fail(b, "execute", run.exc, run.cout)
    ELSE Out(b, Return(""), "none", NoExc, ast.null, FALSE, run.cout, "")

\* interpreter->execute(stmt) has run: return "" or the caught failure
execute_done(b, ast, run) ==
    IF ~run.ok
    THEN execute_fail(SetOwned(b, run.interp), "execute", run.exc, run.cout)
    ELSE Out(SetOwned(b, run.interp), Return(""), "none", NoExc, ast.null,
             FALSE, run.cout, "")

\* Parser::parse has run
execute_stmt(b, env, ast) ==
    IF ~ast.ok THEN execute_fail(b, "parse", ast.exc, <<>>)
    ELSE execute_done(b, ast, Interpreter_execute(ast, Owned(b), env))

\* Lexer::tokenize has run
execute_parse(b, env, tokens) ==
    IF ~tokens.ok THEN execute_fail(b, "tokenize", tokens.exc, <<>>)
    ELSE execute_stmt(b, env, Parser_parse(tokens.tokens, env))

execute(code, b, env) == execute_parse(b, env, Lexer_tokenize(code, env))

\* the catch clauses of eval's outer try: an object neither clause matches
\* leaves eval
eval_catch(e) ==
    IF Catches("RuntimeError", e.cls) THEN Return("RuntimeError: " \o e.what)
    ELSE IF Catches("std::exception", e.cls) THEN Return("Error: " \o e.what)
    ELSE Throw(e)

eval_fail(b, stage, e, cout) ==
    Out(b, eval_catch(e), stage, e, FALSE, FALSE, cout, "")

ResultName == "__lamina_result__"

eval_wrap(expression) == <<"var", ResultName, "=">> \o expression \o <<";">>

\* the inner try: get_variable has run on the interpreter I after execute
eval_result(b, I, cout, result) ==
    IF ~result.ok
    THEN Out(SetOwned(b, I), Return("Error: Could not retrieve result"),
             "get_variable", result.exc, FALSE, TRUE, cout, "")
    ELSE Out(SetOwned(b, I), Return(to_string(result.val)), "none",
             NoExc, FALSE, FALSE, cout, "")

\* interpreter->execute(stmt) has run
eval_done(b, env, run) ==
    IF ~run.ok
    THEN eval_fail(SetOwned(b, run.interp), "execute", run.exc, run.cout)
    ELSE eval_result(b, run.interp, run.cout,
                     Interpreter_get_variable(ResultName, run.interp, env))

\* (mutant) the statement is executed without the check for a null pointer
eval_stmt_nocheck(b, env, ast) ==
    IF ~ast.ok THEN eval_fail(b, "parse", ast.exc, <<>>)
    ELSE eval_done(b, env, Interpreter_execute(ast, Owned(b), env))

\* Parser::parse has run: if (stmt) ... else return "null"
eval_stmt(b, env, ast) ==
    IF ~ast.ok THEN eval_fail(b, "parse", ast.exc, <<>>)
    ELSE IF ast.null
    THEN Out(b, Return("null"), "none", NoExc, TRUE, FALSE, <<>>, "")
    ELSE eval_done(b, env, Interpreter_execute(ast, Owned(b), env))

\* Lexer::tokenize has run
eval_parse(b, env, tokens) ==
    IF ~tokens.ok THEN eval_fail(b, "tokenize", tokens.exc, <<>>)
    ELSE eval_stmt(b, env, Parser_parse(tokens.tokens, env))

eval(expression, b, env) ==
    eval_parse(b, env, Lexer_tokenize(eval_wrap(expression), env))

\* setVariable and setStringVariable: catch (const std::exception&) only
\* (mutant) the binding is made in a copy of the interpreter
set_done_copy(b, set) ==
    IF set.ok \/ Catches("std::exception", set.exc.cls)
    THEN Out(b, Void, "none", NoExc, FALSE, FALSE, <<>>, "")
    ELSE Out(b, Throw(set.exc), "set_variable", set.exc, FALSE, FALSE, <<>>, "")

\* interpreter->set_variable has run
set_done(b, set) ==
    IF set.ok
    THEN Out(SetOwned(b, set.interp), Void, "none", NoExc, FALSE, FALSE, <<>>, "")
    ELSE IF Catches("std::exception", set.exc.cls)
    THEN Out(b, Void, "set_variable", set.exc, FALSE, FALSE, <<>>, "")
    ELSE Out(b, Throw(set.exc), "set_variable", set.exc, FALSE, FALSE, <<>>, "")

setVariable(name, value, b, env) ==
    set_done(b, Interpreter_set_variable(name, NumberValue(value), Owned(b), env))

setStringVariable(name, value, b, env) ==
    set_done(b, Interpreter_set_variable(name, StringValue(value), Owned(b), env))

\* (mutant) a failed lookup is rendered like a default-constructed Value
get_done_null(b, val) ==
    Out(b, Return(to_string(val.val)), "none", NoExc, FALSE, FALSE, <<>>, "")

\* interpreter->get_variable has run
get_done(b, val) ==
    IF val.ok
    THEN Out(b, Return(to_string(val.val)), "none", NoExc, FALSE, FALSE, <<>>, "")
    ELSE IF Catches("std::exception", val.exc.cls)
    THEN Out(b, Return("Error: " \o val.exc.what), "get_variable", val.exc,
             FALSE, TRUE, <<>>, "")
    ELSE Out(b, Throw(val.exc), "get_variable", val.exc, FALSE, TRUE, <<>>, "")

getVariable(name, b, env) ==
    get_done(b, Interpreter_get_variable(name, Owned(b), env))

\* interpreter = std::make_unique<Interpreter>();
\* (mutant) the new interpreter takes over the variables of the old one
reset_keep(b, id) ==
    unique_ptr_assign(b, [make_unique(b.heap, id) EXCEPT
                              ![id].variables = Owned(b).variables], id)

reset_into(b, id) == unique_ptr_assign(b, make_unique(b.heap, id), id)

reset(b) == reset_into(b, Alloc(b.heap))

(***************************************************************************)
(* The calls the host makes.                                               *)
(***************************************************************************)
\* names the host passes to the accessors
Names == {"x", ResultName}

\* strings the host passes to setStringVariable
Strings == {"hi", "null"}

\* source texts the host passes to execute
AllSources ==
    { <<"var", "x", "=", "1", ";">>,
      <<"var", "x", "=", "\"hi\"", ";">>,
      <<"var", "x", "=", "2", ";", "var", "x", "=", "u", ";">>,
      <<"print", "(", "x", ")", ";">>,
      <<"1", "+">>,
      <<"@">>,
      <<>> }

\* expressions the host passes to eval
AllExpressions ==
    { <<"1">>, <<"x">>, <<"1", "+", "1">>, <<"\"null\"">>,
      <<"print", "(", "1", ")">>,
      <<"1", ";", "var", "x", "=", "2">>,
      <<"1", "+">>, <<"@">> }

Stages == {"tokenize", "parse", "execute", "get_variable", "set_variable"}

\* with failures injected at every collaborator call the host passes fewer texts
Sources ==
    IF inject = Stages
    THEN { <<"var", "x", "=", "1", ";">>, <<"1", "+">>, <<"@">> }
    ELSE AllSources

Expressions ==
    IF inject = Stages THEN { <<"1">>, <<"x">>, <<"1", "+">> } ELSE AllExpressions

NoFault == [stage |-> "none", cls |-> "none"]

\* the classes the lexer and the parser may use for their own errors
LexParseClasses == {"RuntimeError", "std::exception"}

\* the failures injected into the collaborator calls of one bridge method
\* (inject: the collaborator calls that may fail for no reason of the language)
Faults(stages) == [stage : stages \cap inject, cls : ExcClasses]

\* what the engine does during one call: engine says how this build of the
\* lexer and the parser reports malformed text, fault is the injected failure
Envs(stages) ==
    [ecls : {engine.ecls}, perr : {engine.perr}, fault : {NoFault} \cup Faults(stages)]

Engines == [ecls : LexParseClasses, perr : {"throw", "null"}]

Record(op, code, name, num, str, fault, r) ==
    [op |-> op, code |-> code, name |-> name, num |-> num, str |-> str,
     fault |-> fault.stage,
     ret |-> r.ret, stage |-> r.stage, cls |-> r.exc.cls, what |-> r.exc.what,
     null |-> r.null, lookup |-> r.lookup, cout |-> r.cout, cerr |-> r.cerr,
     prev |-> Owned(bridge)]

NoCall == Out(LaminaInterpreter_ctor, Void, "none", NoExc, FALSE, FALSE, <<>>, "")

Init ==
    /\ staticInit \in BOOLEAN
    /\ engine \in Engines
    /\ inject = {}
    /\ bridge = LaminaInterpreter_ctor
    /\ last = [Record("new", <<>>, "", 0, "", NoFault, NoCall) EXCEPT !.prev = NewInterpreter]

InitFaulty ==
    /\ staticInit \in BOOLEAN
    /\ engine = [ecls |-> "std::exception", perr |-> "throw"]
    /\ inject = Stages
    /\ bridge = LaminaInterpreter_ctor
    /\ last = [Record("new", <<>>, "", 0, "", NoFault, NoCall) EXCEPT !.prev = NewInterpreter]

InitLookup ==
    /\ staticInit \in BOOLEAN
    /\ engine \in [ecls : {"std::exception"}, perr : {"throw", "null"}]
    /\ inject = {"get_variable"}
    /\ bridge = LaminaInterpreter_ctor
    /\ last = [Record("new", <<>>, "", 0, "", NoFault, NoCall) EXCEPT !.prev = NewInterpreter]

Execute ==
    \E code \in Sources, env \in Envs({"tokenize", "parse", "execute"}) :
        \E r \in {execute(code, bridge, env)} :
            /\ bridge' = r.b
            /\ last' = Record("execute", code, "", 0, "", env.fault, r)
            /\ UNCHANGED <<inject, staticInit, engine>>

Eval ==
    \E expression \in Expressions,
       env \in Envs({"tokenize", "parse", "execute", "get_variable"}) :
        \E r \in {eval(expression, bridge, env)} :
            /\ bridge' = r.b
            /\ last' = Record("eval", expression, "", 0, "", env.fault, r)
            /\ UNCHANGED <<inject, staticInit, engine>>

SetVariable ==
    \E name \in Names, value \in 1..MaxNum, env \in Envs({"set_variable"}) :
        \E r \in {setVariable(name, value, bridge, env)} :
            /\ bridge' = r.b
            /\ last' = Record("setVariable", <<>>, name, value, "", env.fault, r)
            /\ UNCHANGED <<inject, staticInit, engine>>

SetStringVariable ==
    \E name \in Names, value \in Strings, env \in Envs({"set_variable"}) :
        \E r \in {setStringVariable(name, value, bridge, env)} :
            /\ bridge' = r.b
            /\ last' = Record("setStringVariable", <<>>, name, 0, value, env.fault, r)
            /\ UNCHANGED <<inject, staticInit, engine>>

GetVariable ==
    \E name \in Names, env \in Envs({"get_variable"}) :
        \E r \in {getVariable(name, bridge, env)} :
            /\ bridge' = r.b
            /\ last' = Record("getVariable", <<>>, name, 0, "", env.fault, r)
            /\ UNCHANGED <<inject, staticInit, engine>>

Reset ==
    /\ bridge' = reset(bridge)
    /\ last' = Record("reset", <<>>, "", 0, "", NoFault, [NoCall EXCEPT !.b = reset(bridge)])
    /\ UNCHANGED <<inject, staticInit, engine>>

Next ==
    \/ Execute
    \/ Eval
    \/ SetVariable
    \/ SetStringVariable
    \/ GetVariable
    \/ Reset

\* the engine fails only where the language makes it fail
Spec == Init /\ [][Next]_vars

\* any collaborator call may fail with an exception of any class
SpecFaulty == InitFaulty /\ [][Next]_vars

\* only the variable lookup may fail for no reason of the language
SpecLookup == InitLookup /\ [][Next]_vars

(***************************************************************************)
(* What the claims compare the bridge with: the engine used directly.      *)
(***************************************************************************)
\* an engine that fails only where the language makes it fail
DirectEnv == [ecls |-> engine.ecls, perr |-> engine.perr, fault |-> NoFault]

\* every name a scope of the model can bind
AllNames == IdentWords

Program(code) == ParseProgram(Lexer_tokenize(code, DirectEnv).tokens, 1)

ValidStatement(code) == Lexer_tokenize(code, DirectEnv).ok /\ Program(code).ok

DirectExecute(code, I) == ExecBlock(Program(code).stmts, I)

ExprNode(e) == ParseExpr(Lexer_tokenize(e, DirectEnv).tokens, 1)

ValidExpression(e) ==
    /\ Lexer_tokenize(e, DirectEnv).ok
    /\ ExprNode(e).ok
    /\ ExprNode(e).next = Len(e) + 1

DirectEvaluate(e, I) == Evaluate(ExprNode(e).node, I)

\* what getVariable(n) returns now, and what it returned on the interpreter I
GetNow(n) == getVariable(n, bridge, DirectEnv).ret

GetOn(n, I) == getVariable(n, [interpreter |-> 1, heap |-> [i \in {1} |-> I]], DirectEnv).ret

IsErrorString(r) ==
    r.kind = "return" /\ Len(r.val) >= 7 /\ SubSeq(r.val, 1, 7) = "Error: "

SameBinding(n, I, J) ==
    /\ n \in DOMAIN I.variables <=> n \in DOMAIN J.variables
    /\ n \in DOMAIN I.variables => I.variables[n] = J.variables[n]

\* the tag the error taxonomy gives a failure by the stage it came from
StageTag(stage) ==
    CASE stage = "tokenize" -> "LexicalError"
      [] stage = "parse" -> "SyntaxError"
      [] stage = "execute" -> "RuntimeError"
      [] stage = "get_variable" -> "RuntimeError"
      [] OTHER -> "UnknownError"

(***************************************************************************)
(* The claims.                                                             *)
(***************************************************************************)

\* C1: whatever fails inside execute or eval, and with whatever kind of
\* failure (a thrown object that is no standard exception included), the
\* call returns a string: no exception leaves execute or eval.
C1_NoEscape ==
    last.op \in {"execute", "eval"} => last.ret.kind = "return"

\* C2: a failed execute or eval returns "<Kind>: <message>" where <Kind> is
\* the tag of the stage the failure came from; a failure of the parser is
\* returned with the syntax tag, never with the runtime tag.
C2_StageTag ==
    last.op \in {"execute", "eval"} /\ last.stage # "none" =>
        last.ret = Return(StageTag(last.stage) \o ": " \o last.what)

\* C3 as stated: for every syntactically valid statement S, execute(S)
\* returns the empty string and leaves the scope as executing S directly
\* would.
C3_Original ==
    last.op = "execute" /\ ValidStatement(last.code) =>
        /\ last.ret = Return("")
        /\ Owned(bridge) = DirectExecute(last.code, last.prev).interp

\* C3 as amended: for every syntactically valid statement S, execute(S)
\* leaves the owned interpreter as executing S directly would, and returns
\* the empty string when that execution completes without failure; the
\* bindings are what getVariable and eval return afterwards; and execute
\* returns the empty string only when no stage of the call failed.
C3_Execute ==
    last.op = "execute" =>
        /\ ValidStatement(last.code) =>
              /\ Owned(bridge) = DirectExecute(last.code, last.prev).interp
              /\ DirectExecute(last.code, last.prev).ok => last.ret = Return("")
              /\ \A n \in DOMAIN DirectExecute(last.code, last.prev).interp.variables :
                    /\ GetNow(n) = Return(to_string(
                          DirectExecute(last.code, last.prev).interp.variables[n]))
                    /\ eval(<<n>>, bridge, DirectEnv).ret = GetNow(n)
        /\ last.ret = Return("") =>
              /\ Lexer_tokenize(last.code, DirectEnv).ok
              /\ Program(last.code).ok => DirectExecute(last.code, last.prev).ok
              /\ ~Program(last.code).ok => engine.perr = "null"

\* a valid statement has run, returned "" and changed the scope
C3_Witness ==
    /\ last.op = "execute"
    /\ ValidStatement(last.code)
    /\ last.ret = Return("")
    /\ Owned(bridge).variables # last.prev.variables
    /\ DOMAIN last.prev.variables # {}

\* the statement eval builds around the expression e
Wrapped(e) == <<"var", "__lamina_result__", "=">> \o e \o <<";">>

\* parsing the wrapped expression yields no statement
NullStatement(e) ==
    /\ Lexer_tokenize(Wrapped(e), DirectEnv).ok
    /\ ~Program(Wrapped(e)).ok
    /\ engine.perr = "null"

\* the wrapped statement ran on I, and the lookup of the result then failed
LookupFailed(e, I) ==
    /\ ValidStatement(Wrapped(e))
    /\ DirectExecute(Wrapped(e), I).ok
    /\ last.fault = "get_variable"

\* C4 as stated: eval of a valid expression returns the rendering of its
\* direct evaluation; "null" is returned exactly when parsing yields no
\* statement, and the fixed error string exactly when the statement ran but
\* the lookup of the result variable failed.
C4_Original ==
    last.op = "eval" =>
        /\ ValidExpression(last.code) /\ DirectEvaluate(last.code, last.prev).ok
             /\ last.fault = "none"
             => last.ret = Return(to_string(DirectEvaluate(last.code, last.prev).val))
        /\ last.ret = Return("null") <=> NullStatement(last.code)
        /\ last.ret = Return("Error: Could not retrieve result")
             <=> LookupFailed(last.code, last.prev)

\* C4 as amended: eval of a valid expression returns the rendering of its
\* direct evaluation (unless the lookup of the result variable fails); it
\* returns "null" whenever parsing yields no statement and the fixed error
\* string whenever the statement ran but the lookup failed.  Neither string
\* is returned only then: a value may render as the same text.
C4_Eval ==
    last.op = "eval" =>
        /\ ValidExpression(last.code) /\ DirectEvaluate(last.code, last.prev).ok
             /\ last.fault = "none"
             => last.ret = Return(to_string(DirectEvaluate(last.code, last.prev).val))
        /\ NullStatement(last.code) => last.ret = Return("null")
        /\ LookupFailed(last.code, last.prev)
             => last.ret = Return("Error: Could not retrieve result")

\* a valid expression over a bound variable has been evaluated and rendered
C4_Witness ==
    /\ last.op = "eval"
    /\ last.code = <<"x">>
    /\ "x" \in DOMAIN last.prev.variables
    /\ last.ret = Return(to_string(last.prev.variables["x"]))

\* C5: after setVariable(n, v), getVariable(n) returns the rendering of the
\* number v; after setStringVariable(n, s) it returns s; the setter
\* overwrites a binding of n of any type and changes no other binding.
C5_SetThenGet ==
    /\ last.op = "setVariable" =>
          /\ GetNow(last.name) = Return(to_string(NumberValue(last.num)))
          /\ \A n \in AllNames \ {last.name} : SameBinding(n, Owned(bridge), last.prev)
    /\ last.op = "setStringVariable" =>
          /\ GetNow(last.name) = Return(last.str)
          /\ \A n \in AllNames \ {last.name} : SameBinding(n, Owned(bridge), last.prev)

\* setVariable has overwritten a string binding while another name was bound
C5_Witness ==
    /\ last.op = "setVariable"
    /\ last.name \in DOMAIN last.prev.variables
    /\ last.prev.variables[last.name].type = "String"
    /\ DOMAIN last.prev.variables # {last.name}

\* C6: after reset() getVariable returns an error string for every name,
\* those bound before the reset included; nothing of the discarded
\* interpreter is left; the bridge owns exactly one interpreter at all times.
C6_Reset ==
    /\ DOMAIN bridge.heap = {bridge.interpreter}
    /\ last.op = "reset" =>
          /\ DOMAIN Owned(bridge).variables = {}
          /\ \A n \in AllNames : IsErrorString(GetNow(n))

\* reset has discarded an interpreter that held bindings
C6_Witness ==
    last.op = "reset" /\ DOMAIN last.prev.variables # {}

\* C7: getVariable of an unbound name returns an error-tagged string, lets
\* no failure out of the bridge and leaves the interpreter as it was.
C7_GetUnbound ==
    last.op = "getVariable" /\ last.name \notin DOMAIN last.prev.variables =>
        /\ IsErrorString(last.ret)
        /\ Owned(bridge) = last.prev

\* getVariable has been called with an unbound name while another was bound
C7_Witness ==
    /\ last.op = "getVariable"
    /\ last.name \notin DOMAIN last.prev.variables
    /\ DOMAIN last.prev.variables # {}

\* C8: the setters swallow every failure of set_variable, whatever its kind:
\* the call returns normally, and after a failed set the bindings are those
\* before the call.
C8_Swallow ==
    last.op \in {"setVariable", "setStringVariable"} =>
        /\ last.ret.kind = "void"
        /\ last.fault = "set_variable" => Owned(bridge) = last.prev

\* C9: eval of an expression leaves what getVariable returns unchanged for
\* every name, a binding the caller made under any name included.
C9_NoCollision ==
    last.op = "eval" /\ ValidExpression(last.code) =>
        \A n \in AllNames : GetNow(n) = GetOn(n, last.prev)

\* C10: in every reachable state the owned interpreter's builtin table holds
\* the print builtin the constructor registered.
C10_PrintRegistered ==
    "print" \in Owned(bridge).builtin_functions

=============================================================================
